---------------------------- MODULE Spec2Model ----------------------------
(***************************************************************************)
(* A model of the Whisper VST plugin (src/src/lib.rs): the note gate       *)
(* driven by process_events, the noise generator process, the shared       *)
(* volume parameter (an AtomicFloat: an f32 kept as 32 bits in one atomic  *)
(* word), and the editor GUIWrapper that drives the GUI generator from     *)
(* idle().                                                                 *)
(*                                                                         *)
(* f32 values are written as integers in units of 1/64: every value used   *)
(* here is a dyadic rational with few bits, on which f32 arithmetic is     *)
(* exact, so the integer arithmetic below is the f32 arithmetic.           *)
(***************************************************************************)
EXTENDS Integers, Sequences, FiniteSets, TLC

VARIABLES
    overflow_checks, \* the build: TRUE = overflow checks on (debug), FALSE = off (release)
    panicked,        \* a panic has unwound out of a callback; nothing runs afterwards
    notes,           \* Whisper.notes : u8
    n_on, n_off,     \* history: note-on / note-off events process_events has matched
    volume,          \* WhisperParameters.volume : the four bytes of the atomic word
    last_write,      \* history: the value passed to the last completed volume.set
    reply,           \* the value the last parameter query returned to the host
    rt_pc,           \* where the real-time thread is inside process
    buf,             \* the output buffer of the current process call
    cur,             \* the number of samples of buf already written by this call
    vol_local,       \* process's local `volume` (line 91)
    inner,           \* GUIWrapper.inner : Option<GUI>
    acquired,        \* history: native resources acquired so far, per kind
    released,        \* history: native resources released so far, per kind
    ui_last          \* what the last editor call did

vars == <<overflow_checks, panicked, notes, n_on, n_off, volume, last_write, reply,
          rt_pc, buf, cur, vol_local, inner, acquired, released, ui_last>>

gate_vars == <<notes, n_on, n_off>>
param_vars == <<volume, last_write>>
process_vars == <<rt_pc, buf, cur, vol_local>>
editor_vars == <<inner, acquired, released, ui_last>>

----------------------------------------------------------------------------
(* Bounds of the model *)

\* events process_events delivers in one batch
MaxBatch == 2
\* events delivered over a whole run of the gate specification
MaxEvents == 258
\* events delivered over a whole run of the plugin specification
MaxPluginEvents == 2
\* output channels of one process call
MaxChannels == 2
\* sample frames of one process call
MaxFrames == 2
\* window events one run_return delivers to the closure
MaxWinEvents == 2
\* sessions that acquire their window over a whole run
MaxSessions == 2
\* slider positions queued in the iced program state
MaxQueue == 2

----------------------------------------------------------------------------
(* u8 arithmetic *)

U8Max == 255

Max(a, b) == IF a >= b THEN a ELSE b

Abs(a) == IF a < 0 THEN 0 - a ELSE a

\* The result of a u8 operation whose mathematical value is x: with overflow
\* checks the operation panics when x is out of range, without them it wraps.
U8Result(x) ==
    IF x >= 0 /\ x <= U8Max
    THEN [value |-> x, panic |-> FALSE]
    ELSE IF overflow_checks
         THEN [value |-> 0, panic |-> TRUE]
         ELSE [value |-> x % (U8Max + 1), panic |-> FALSE]

----------------------------------------------------------------------------
(* Events and Whisper::process_events *)

NoteOnStatus == 144
NoteOffStatus == 128

Midi(b) == [kind |-> "Midi", data0 |-> b]
SysEx == [kind |-> "SysEx", data0 |-> 0]

\* the events a host delivers: note-on, note-off, note-on on channel 1, and
\* an event that is not MIDI
EventSet == {Midi(NoteOnStatus), Midi(NoteOffStatus), Midi(145), SysEx}

IsNoteOn(ev) == ev.kind = "Midi" /\ ev.data0 = NoteOnStatus
IsNoteOff(ev) == ev.kind = "Midi" /\ ev.data0 = NoteOffStatus

\* `self.notes += 1u8`
NoteOn(n) == U8Result(n + 1)

\* `self.notes -= 1u8`
NoteOff(n) == U8Result(n - 1)

\* One iteration of the for loop of process_events on gate state
\* g = [notes, panic, on, off]; after a panic the loop is gone.
ApplyEvent(g, ev) ==
    IF g.panic THEN g
    ELSE IF IsNoteOn(ev)
         THEN LET r == NoteOn(g.notes)
              IN  [notes |-> IF r.panic THEN g.notes ELSE r.value,
                   panic |-> r.panic, on |-> g.on + 1, off |-> g.off]
         ELSE IF IsNoteOff(ev)
              THEN LET r == NoteOff(g.notes)
                   IN  [notes |-> IF r.panic THEN g.notes ELSE r.value,
                        panic |-> r.panic, on |-> g.on, off |-> g.off + 1]
              ELSE g

RECURSIVE RunEvents(_, _)
RunEvents(g, events) ==
    IF events = <<>> THEN g
    ELSE RunEvents(ApplyEvent(g, Head(events)), Tail(events))

Batches == UNION {[1..n -> EventSet] : n \in 0..MaxBatch}

Gate == [notes |-> notes, panic |-> FALSE, on |-> n_on, off |-> n_off]

process_events_upto(cap) ==
    /\ ~panicked
    /\ rt_pc = "idle"
    /\ \E events \in Batches :
          /\ n_on + n_off + Len(events) <= cap
          /\ LET g == RunEvents(Gate, events)
             IN  /\ notes' = g.notes
                 /\ panicked' = g.panic
                 /\ n_on' = g.on
                 /\ n_off' = g.off
    /\ UNCHANGED <<overflow_checks, param_vars, reply, process_vars, editor_vars>>

process_events == process_events_upto(MaxEvents)

----------------------------------------------------------------------------
(* f32 and AtomicFloat (vst::util::AtomicFloat: an AtomicU32 holding       *)
(* f32::to_bits of the value; set is one store, get is one load)           *)

\* the unit of the f32 values of the model: the integer n stands for n / 64
F32One == 64

RECURSIVE Pow2(_)
Pow2(k) == IF k = 0 THEN 1 ELSE 2 * Pow2(k - 1)

\* the position of the highest set bit of a > 0
RECURSIVE Log2(_)
Log2(a) == IF a <= 1 THEN 0 ELSE 1 + Log2(a \div 2)

\* f32::to_bits, most significant byte first: sign (1 bit), biased exponent
\* (8 bits), fraction (23 bits)
to_bits(n) ==
    LET sign == IF n < 0 THEN 1 ELSE 0
        a == Abs(n)
        p == Log2(a)
        biased == IF a = 0 THEN 0 ELSE p - Log2(F32One) + 127
        frac == IF a = 0 THEN 0 ELSE (a - Pow2(p)) * Pow2(23 - p)
    IN  << sign * 128 + biased \div 2,
           (biased % 2) * 128 + frac \div 65536,
           (frac \div 256) % 256,
           frac % 256 >>

\* f32::from_bits, for the zeros and the normal numbers of magnitude below 2^17
from_bits(b) ==
    LET sign == b[1] \div 128
        biased == (b[1] % 128) * 2 + b[2] \div 128
        frac == (b[2] % 128) * 65536 + b[3] * 256 + b[4]
        shift == 127 + 23 - Log2(F32One) - biased
        a == IF biased = 0 THEN 0
             ELSE IF shift >= 0 THEN (Pow2(23) + frac) \div Pow2(shift)
                  ELSE (Pow2(23) + frac) * Pow2(0 - shift)
    IN  IF sign = 1 THEN 0 - a ELSE a

\* a store that is not atomic, seen when only its first byte has landed
AtomicSet_torn(word, value) == <<to_bits(value)[1], word[2], word[3], word[4]>>

\* AtomicFloat::set: the word after `self.atomic.store(value.to_bits())`
AtomicSet(word, value) == to_bits(value)

\* AtomicFloat::get: `f32::from_bits(self.atomic.load())`
AtomicGet(word) == from_bits(word)

----------------------------------------------------------------------------
(* WhisperParameters *)

\* WhisperParameters::default: volume 1.0
DefaultVolume == F32One

\* values a host passes to set_parameter: -0.5, 0.25, 1.5
HostVals == {0 - 32, 16, 96}

\* values the slider of range 0.0..=1.0 reports: 0.0, 0.75
SliderVals == {0, 48}

\* parameter indices a host asks about: index 0 is the volume
Indices == {0 - 1, 0, 1, 2}

Digit(d) ==
    CASE d = 0 -> "0" [] d = 1 -> "1" [] d = 2 -> "2" [] d = 3 -> "3" [] d = 4 -> "4"
      [] d = 5 -> "5" [] d = 6 -> "6" [] d = 7 -> "7" [] d = 8 -> "8" [] d = 9 -> "9"

RECURSIVE Decimal(_)
Decimal(k) == IF k < 10 THEN Digit(k) ELSE Decimal(k \div 10) \o Digit(k % 10)

\* format!("{:.3}", v): three decimals, exact ties rounded to even
Format3(n) ==
    LET a == Abs(n)
        q == (a * 1000) \div F32One
        r == (a * 1000) % F32One
        up == 2 * r > F32One \/ (2 * r = F32One /\ q % 2 = 1)
        m == IF up THEN q + 1 ELSE q
        f == m % 1000
    IN  (IF n < 0 THEN "-" ELSE "") \o Decimal(m \div 1000) \o "."
        \o Digit(f \div 100) \o Digit((f \div 10) % 10) \o Digit(f % 10)

get_parameter_label(index) == IF index = 0 THEN "x" ELSE ""

get_parameter_text(index) == IF index = 0 THEN Format3(AtomicGet(volume)) ELSE ""

get_parameter_name(index) == IF index = 0 THEN "volume" ELSE ""

\* the index match widened: every index from 0 on reads the volume
get_parameter_any(index) == IF index >= 0 THEN AtomicGet(volume) ELSE 0

get_parameter(index) == IF index = 0 THEN AtomicGet(volume) ELSE 0

\* the parameter store after set_parameter(index, value)
SetParameter(index, value) ==
    IF index = 0
    THEN [word |-> AtomicSet(volume, value), last |-> value]
    ELSE [word |-> volume, last |-> last_write]

NumReply(op, index, x) == [op |-> op, index |-> index, num |-> x, str |-> ""]
StrReply(op, index, s) == [op |-> op, index |-> index, num |-> 0, str |-> s]
NoReply == StrReply("none", 0, "")

query_frame == UNCHANGED <<overflow_checks, panicked, gate_vars, param_vars,
                           process_vars, editor_vars>>

host_get_parameter ==
    /\ ~panicked
    /\ \E index \in Indices :
          reply' = NumReply("get_parameter", index, get_parameter(index))
    /\ query_frame

host_get_parameter_label ==
    /\ ~panicked
    /\ \E index \in Indices :
          reply' = StrReply("get_parameter_label", index, get_parameter_label(index))
    /\ query_frame

host_get_parameter_text ==
    /\ ~panicked
    /\ \E index \in Indices :
          reply' = StrReply("get_parameter_text", index, get_parameter_text(index))
    /\ query_frame

host_get_parameter_name ==
    /\ ~panicked
    /\ \E index \in Indices :
          reply' = StrReply("get_parameter_name", index, get_parameter_name(index))
    /\ query_frame

host_set_parameter ==
    /\ ~panicked
    /\ \E index \in Indices, value \in HostVals :
          LET s == SetParameter(index, value)
          IN  /\ volume' = s.word
              /\ last_write' = s.last
    /\ UNCHANGED <<overflow_checks, panicked, gate_vars, reply, process_vars, editor_vars>>

----------------------------------------------------------------------------
(* Whisper::process, one step per sample written: the host and the UI      *)
(* thread run between the steps                                            *)

\* what the host left in the buffer it hands to process: not a sample value
Stale == 1000 * F32One

\* values of random::<f32>(), which lies in [0, 1): 0.0 and 0.75
RandomVals == {0, 48}

\* f32 multiplication, exact on the values of the model
Mul(a, b) == (a * b) \div F32One

\* the parameter read again for every sample instead of the local of line 91
NoiseSample_reread(r, v) == Mul(Mul(r - F32One \div 2, 2 * F32One), AtomicGet(volume))

\* `(random::<f32>() - 0.5f32) * 2f32 * volume`
NoiseSample(r, v) == Mul(Mul(r - F32One \div 2, 2 * F32One), v)

\* `*output_sample = 0.0`
SilenceSample == 0

NewBuffer(channels, frames) == [c \in 1..channels |-> [f \in 1..frames |-> Stale]]

Channels(b) == Len(b)
Frames(b) == IF Len(b) = 0 THEN 0 ELSE Len(b[1])
Size(b) == Channels(b) * Frames(b)

\* the k-th sample of the buffer in the order the two nested loops visit it
ChannelOf(b, k) == ((k - 1) \div Frames(b)) + 1
FrameOf(b, k) == ((k - 1) % Frames(b)) + 1

WriteSample(b, k, x) == [b EXCEPT ![ChannelOf(b, k)][FrameOf(b, k)] = x]

Samples(b) == {b[c][f] : c \in 1..Channels(b), f \in 1..Frames(b)}

\* the gate test lost: process takes the noise branch whatever the counter
GateClosed_never(n) == n < 0

\* the branch process takes on `self.notes == 0`
GateClosed(n) == n = 0

process_frame == UNCHANGED <<overflow_checks, panicked, gate_vars, param_vars, reply,
                             editor_vars>>

\* entry of process up to the first sample: the gate test (line 81) and, with
\* the gate open, the one read of the parameter (line 91)
process_call(chans, frms) ==
    /\ ~panicked
    /\ rt_pc = "idle"
    /\ \E channels \in chans, frames \in frms : buf' = NewBuffer(channels, frames)
    /\ cur' = 0
    /\ IF GateClosed(notes)
       THEN rt_pc' = "silence" /\ UNCHANGED vol_local
       ELSE rt_pc' = "noise" /\ vol_local' = AtomicGet(volume)
    /\ process_frame

process_begin == process_call(0..MaxChannels, 0..MaxFrames)

process_silence_sample ==
    /\ ~panicked
    /\ rt_pc = "silence"
    /\ cur < Size(buf)
    /\ buf' = WriteSample(buf, cur + 1, SilenceSample)
    /\ cur' = cur + 1
    /\ UNCHANGED <<rt_pc, vol_local>>
    /\ process_frame

process_noise_sample ==
    /\ ~panicked
    /\ rt_pc = "noise"
    /\ cur < Size(buf)
    /\ \E r \in RandomVals : buf' = WriteSample(buf, cur + 1, NoiseSample(r, vol_local))
    /\ cur' = cur + 1
    /\ UNCHANGED <<rt_pc, vol_local>>
    /\ process_frame

process_return ==
    /\ ~panicked
    /\ rt_pc \in {"silence", "noise"}
    /\ cur = Size(buf)
    /\ rt_pc' = "idle"
    /\ UNCHANGED <<buf, cur, vol_local>>
    /\ process_frame

----------------------------------------------------------------------------
(* GUI: the generator of GUI::new, resumed by GUIWrapper::idle             *)

\* the native resources the generator's locals own once its setup has run
Res == {"window", "surface", "device"}

\* a generator: where it is suspended, its local `closed`, and the events
\* queued in the iced program state (the slider positions waiting for
\* state.update). The locals viewport, resized and swap_chain decide only
\* the pixels of a frame and are left out.
NewGUI == [pc |-> "Unresumed", closed |-> FALSE, queue |-> <<>>]

\* the resources a generator's locals own, released when it is dropped
Held(g) == IF g.pc \in {"Yield303", "Yield421"} THEN Res ELSE {}

\* what the platform answers when the setup asks for its resources
Envs == {"ok", "no_window", "no_adapter"}

\* the events run_return hands to the closure
WinEvent(kind, v) == [kind |-> kind, value |-> v]
WinEvents ==
    {WinEvent("Resized", 0), WinEvent("CloseRequested", 0), WinEvent("MainEventsCleared", 0),
     WinEvent("RedrawRequested", 0), WinEvent("RedrawTimeout", 0)}
    \cup {WinEvent("SliderMoved", v) : v \in SliderVals}

WinBatches == UNION {[1..n -> WinEvents] : n \in 0..MaxWinEvents}

\* the outcome of a resume: the generator afterwards, Yielded / Complete /
\* Panic, the resources acquired and released, the values written to the
\* volume in order, the frames rendered, and those of them rendered when
\* `closed` was already set (late)
Outcome(g, result, acq, rel, writes, frames) ==
    [gen |-> g, result |-> result, acq |-> acq, rel |-> rel, writes |-> writes,
     frames |-> frames, late |-> 0]

\* a frame drawn by the setup, before its yield
Setup_renders(g, env) ==
    CASE env = "no_window" ->
           Outcome([g EXCEPT !.pc = "Poisoned"], "Panic", {}, {}, <<>>, 0)
      [] env = "no_adapter" ->
           Outcome([g EXCEPT !.pc = "Poisoned"], "Panic",
                   {"window", "surface"}, {"window", "surface"}, <<>>, 0)
      [] OTHER ->
           Outcome([g EXCEPT !.pc = "Yield303"], "Yielded", Res, {}, <<>>, 1)

\* lines 230-303: the setup, up to the first yield. `.unwrap()` on the window
\* and `.expect("Request adapter")` panic; the unwinding drops the locals
\* built so far.
Setup(g, env) ==
    CASE env = "no_window" ->
           Outcome([g EXCEPT !.pc = "Poisoned"], "Panic", {}, {}, <<>>, 0)
      [] env = "no_adapter" ->
           Outcome([g EXCEPT !.pc = "Poisoned"], "Panic",
                   {"window", "surface"}, {"window", "surface"}, <<>>, 0)
      [] OTHER ->
           Outcome([g EXCEPT !.pc = "Yield303"], "Yielded", Res, {}, <<>>, 0)

\* WhisperGUI::update: the value Message::VolumeChanged(v) writes to the volume
Update(v) == v

\* the redraw skipped once `closed` is set
Closure_guarded(o, ev) ==
    IF o.result = "Panic" THEN o
    ELSE CASE ev.kind = "CloseRequested" ->
                [o EXCEPT !.gen.closed = TRUE]
           [] ev.kind = "SliderMoved" ->
                [o EXCEPT !.gen.queue = Append(@, ev.value)]
           [] ev.kind = "MainEventsCleared" ->
                [o EXCEPT !.writes = @ \o [i \in 1..Len(o.gen.queue) |-> Update(o.gen.queue[i])],
                          !.gen.queue = <<>>]
           [] ev.kind = "RedrawRequested" /\ ~o.gen.closed ->
                [o EXCEPT !.frames = @ + 1]
           [] ev.kind = "RedrawTimeout" ->
                [o EXCEPT !.result = "Panic", !.gen.pc = "Poisoned", !.rel = Held(o.gen)]
           [] OTHER -> o

\* lines 307-420: the closure on one event, on o = an Outcome in the making
Closure(o, ev) ==
    IF o.result = "Panic" THEN o
    ELSE CASE ev.kind = "CloseRequested" ->
                [o EXCEPT !.gen.closed = TRUE]
           [] ev.kind = "SliderMoved" ->
                [o EXCEPT !.gen.queue = Append(@, ev.value)]
           [] ev.kind = "MainEventsCleared" ->
                [o EXCEPT !.writes = @ \o [i \in 1..Len(o.gen.queue) |-> Update(o.gen.queue[i])],
                          !.gen.queue = <<>>]
           [] ev.kind = "RedrawRequested" ->
                [o EXCEPT !.frames = @ + 1,
                          !.late = @ + (IF o.gen.closed THEN 1 ELSE 0)]
           [] ev.kind = "RedrawTimeout" ->
                [o EXCEPT !.result = "Panic", !.gen.pc = "Poisoned", !.rel = Held(o.gen)]
           [] OTHER -> o

RECURSIVE RunReturn(_, _)
RunReturn(o, events) ==
    IF events = <<>> THEN o
    ELSE RunReturn(Closure(o, Head(events)), Tail(events))


Fresh(g) == Outcome(g, "Yielded", {}, {}, <<>>, 0)

\* the loop left as soon as `closed` is set, without the yield of line 421
LoopTurn_eager(g, events) ==
    LET o == RunReturn(Fresh(g), events)
    IN  IF o.result = "Panic" THEN o
        ELSE IF o.gen.closed
             THEN [o EXCEPT !.gen.pc = "Returned", !.result = "Complete",
                            !.rel = Held(g)]
             ELSE [o EXCEPT !.gen.pc = "Yield421"]

\* lines 306-422: one turn of `while !closed { run_return(..); yield; }`
LoopTurn(g, events) ==
    LET o == RunReturn(Fresh(g), events)
    IN  IF o.result = "Panic" THEN o ELSE [o EXCEPT !.gen.pc = "Yield421"]

\* the locals forgotten at the end of the generator instead of dropped
Return_leak(g) == Outcome([g EXCEPT !.pc = "Returned"], "Complete", {}, {}, <<>>, 0)

\* the end of the generator: the loop test fails, the body returns and its
\* locals are dropped
Return(g) == Outcome([g EXCEPT !.pc = "Returned"], "Complete", {}, Held(g), <<>>, 0)

\* Generator::resume
Resume(g, env, events) ==
    CASE g.pc = "Unresumed" -> Setup(g, env)
      [] g.pc = "Yield303" -> LoopTurn(g, events)
      [] g.pc = "Yield421" -> IF g.closed THEN Return(g) ELSE LoopTurn(g, events)
      [] OTHER -> Outcome(g, "Panic", {}, {}, <<>>, 0)

----------------------------------------------------------------------------
(* GUIWrapper: the editor *)

\* Option<GUI>: <<>> is None, <<g>> is Some(g)
None == <<>>
Some(g) == <<g>>
IsSome(opt) == opt # None

\* the old GUI forgotten instead of dropped: its resources stay alive
Dropped_leak(opt) == {}

\* the resources released by dropping an Option<GUI>
Dropped(opt) == IF IsSome(opt) THEN Held(opt[1]) ELSE {}

ZeroCount == [r \in Res |-> 0]
Count(c, S) == [r \in Res |-> c[r] + (IF r \in S THEN 1 ELSE 0)]

\* resources of kind r alive in the process
Live(r) == acquired[r] - released[r]

\* what an editor call did: its return value (open, is_open), how often it
\* resumed the generator and with which result, the frames rendered (late:
\* after a close request), and the native resources it released
Call(op, ret, resumes, result, frames, freed) ==
    [op |-> op, ret |-> ret, resumes |-> resumes, result |-> result, frames |-> frames,
     late |-> 0, freed |-> freed]
NoCall == Call("none", FALSE, 0, "none", 0, {})

\* the result of the resume ignored: a completed generator is kept
AfterResume_keep(o) == Some(o.gen)

\* lines 445-449: self.inner after the resume
AfterResume(o) == IF o.result = "Complete" THEN None ELSE Some(o.gen)

RECURSIVE StoreAll(_, _)
StoreAll(word, writes) ==
    IF writes = <<>> THEN word
    ELSE StoreAll(AtomicSet(word, Head(writes)), Tail(writes))

\* the gate counter cleared by every editor call
editor_frame_gate ==
    /\ notes' = 0
    /\ UNCHANGED <<overflow_checks, n_on, n_off, reply, process_vars>>

editor_frame == UNCHANGED <<overflow_checks, gate_vars, reply, process_vars>>

\* the resume commented out at line 463 executed: open runs the setup
open_resumes ==
    /\ ~panicked
    /\ acquired["window"] < MaxSessions
    /\ LET o == Setup(NewGUI, "ok")
       IN  /\ inner' = Some(o.gen)
           /\ acquired' = Count(acquired, o.acq)
           /\ ui_last' = Call("open", TRUE, 1, o.result, o.frames, Dropped(inner))
    /\ released' = Count(released, Dropped(inner))
    /\ UNCHANGED <<panicked, param_vars>>
    /\ editor_frame

\* GUIWrapper::open: the new GUI is built (its generator not resumed), then
\* the assignment to self.inner drops the GUI that was there
open ==
    /\ ~panicked
    /\ acquired["window"] < MaxSessions
    /\ inner' = Some(NewGUI)
    /\ released' = Count(released, Dropped(inner))
    /\ ui_last' = Call("open", TRUE, 0, "none", 0, Dropped(inner))
    /\ UNCHANGED <<panicked, param_vars, acquired>>
    /\ editor_frame

\* what a resume of g reads from outside: the platform's answer during the
\* setup, the events of run_return during a turn of the loop
Inputs(g, batches) ==
    CASE g.pc = "Unresumed" -> Envs \X {<<>>}
      [] g.pc = "Yield421" /\ g.closed -> {<<"ok", <<>>>>}
      [] OTHER -> {"ok"} \X batches

\* GUIWrapper::idle
idle_with(batches) ==
    /\ ~panicked
    /\ IF IsSome(inner)
       THEN \E in \in Inputs(inner[1], batches) :
               LET o == Resume(inner[1], in[1], in[2])
               IN  /\ Len(o.gen.queue) <= MaxQueue
                   /\ inner' = AfterResume(o)
                   /\ panicked' = (o.result = "Panic")
                   /\ acquired' = Count(acquired, o.acq)
                   /\ released' = Count(released, o.rel)
                   /\ volume' = StoreAll(volume, o.writes)
                   /\ last_write' = IF o.writes = <<>> THEN last_write
                                    ELSE o.writes[Len(o.writes)]
                   /\ ui_last' = [Call("idle", FALSE, 1, o.result, o.frames, o.rel)
                                     EXCEPT !.late = o.late]
       ELSE /\ ui_last' = Call("idle", FALSE, 0, "none", 0, {})
            /\ UNCHANGED <<inner, panicked, acquired, released, param_vars>>
    /\ editor_frame

idle == idle_with(WinBatches)

\* the session kept: close returns without clearing self.inner
close_keep ==
    /\ ~panicked
    /\ ui_last' = Call("close", FALSE, 0, "none", 0, {})
    /\ UNCHANGED <<panicked, param_vars, inner, acquired, released>>
    /\ editor_frame

\* GUIWrapper::close
close ==
    /\ ~panicked
    /\ inner' = None
    /\ released' = Count(released, Dropped(inner))
    /\ ui_last' = Call("close", FALSE, 0, "none", 0, Dropped(inner))
    /\ UNCHANGED <<panicked, param_vars, acquired>>
    /\ editor_frame

\* the window's state reported instead of the session's: false once the
\* generator has seen the close request
is_open_window ==
    /\ ~panicked
    /\ ui_last' = Call("is_open", IsSome(inner) /\ ~inner[1].closed, 0, "none", 0, {})
    /\ UNCHANGED <<panicked, param_vars, inner, acquired, released>>
    /\ editor_frame

\* GUIWrapper::is_open
is_open ==
    /\ ~panicked
    /\ ui_last' = Call("is_open", IsSome(inner), 0, "none", 0, {})
    /\ UNCHANGED <<panicked, param_vars, inner, acquired, released>>
    /\ editor_frame

----------------------------------------------------------------------------
(* The specifications *)

\* the plugin and its editor as the host gets them from plugin_main! and
\* get_editor, in either build
Init ==
    /\ overflow_checks \in BOOLEAN
    /\ panicked = FALSE
    /\ notes = 0
    /\ n_on = 0
    /\ n_off = 0
    /\ volume = to_bits(DefaultVolume)
    /\ last_write = DefaultVolume
    /\ reply = NoReply
    /\ rt_pc = "idle"
    /\ buf = <<>>
    /\ cur = 0
    /\ vol_local = 0
    /\ inner = None
    /\ acquired = ZeroCount
    /\ released = ZeroCount
    /\ ui_last = NoCall

\* the note gate alone, over runs long enough to fill the u8 counter
NextGate == process_events
SpecGate == Init /\ [][NextGate]_vars

\* the parameter object as the host queries and sets it
NextParams ==
    \/ host_get_parameter
    \/ host_get_parameter_label
    \/ host_get_parameter_text
    \/ host_get_parameter_name
    \/ host_set_parameter
SpecParams == Init /\ [][NextParams]_vars

\* the real-time thread, with the host writing the parameter between its steps
NextAudio ==
    \/ process_events_upto(MaxPluginEvents)
    \/ process_begin
    \/ process_silence_sample
    \/ process_noise_sample
    \/ process_return
    \/ host_set_parameter
SpecAudio == Init /\ [][NextAudio]_vars

\* the editor on the UI thread
NextEditor ==
    \/ open
    \/ idle
    \/ close
    \/ is_open
    \/ host_set_parameter
SpecEditor == Init /\ [][NextEditor]_vars

\* the parameter store with its readers (process, and get_parameter at any
\* moment) and its two writers (set_parameter, the GUI's update run by
\* idle), interleaved; one event per run and one sample per block keep the
\* real-time thread small
Next ==
    \/ process_events_upto(1)
    \/ process_call(0..1, 0..1)
    \/ process_silence_sample
    \/ process_noise_sample
    \/ process_return
    \/ host_set_parameter
    \/ open
    \/ idle_with({b \in WinBatches : Len(b) <= 1})
    \/ close
Spec == Init /\ [][Next]_vars

----------------------------------------------------------------------------
(* The note gate *)

\* C1: a note-off delivered while the gate counter is 0 leaves it at 0 and
\* does not fault: a batch holding note-offs and no note-on, delivered at
\* counter 0, ends with the counter at 0 and no panic.
C1_NoteOffSaturates ==
    [][(notes = 0 /\ n_on' = n_on /\ n_off' > n_off) => (notes' = 0 /\ ~panicked')]_vars

\* C2: at every processed prefix the gate counter equals
\* max(0, #note-on - #note-off).
C2_CounterIsBalance == notes = Max(0, n_on - n_off)

\* C3: every note-on of a batch changes the counter by exactly +1 and every
\* note-off by exactly -1, nothing else changes it: over a batch the counter
\* moves by the note-ons minus the note-offs delivered.
C3_ExactSteps ==
    [][notes' - notes = (n_on' - n_on) - (n_off' - n_off)]_vars

----------------------------------------------------------------------------
(* The generator of samples *)

\* C4: whenever process is called with the gate counter at 0, every sample of
\* every channel of the buffer is 0.0 when the call returns, whatever the
\* buffer's shape and whatever is written to the volume meanwhile.
C4_SilenceWhenGateClosed ==
    [][(rt_pc # "idle" /\ rt_pc' = "idle" /\ notes = 0) => Samples(buf') \subseteq {0}]_vars

\* C4 witness: a call with the gate closed has filled a buffer of the largest
\* shape with zeros, the volume having been written to another value.
C4_Witness ==
    /\ rt_pc = "silence"
    /\ notes = 0
    /\ Size(buf) = MaxChannels * MaxFrames
    /\ cur = Size(buf)
    /\ Samples(buf) = {0}
    /\ AtomicGet(volume) # DefaultVolume

\* C5: with the gate open, the magnitude of every sample written never
\* exceeds the volume read for the block: each lies in [-volume, +volume].
C5_SamplesWithinVolume ==
    rt_pc = "noise" =>
        \A k \in 1..cur :
            LET x == buf[ChannelOf(buf, k)][FrameOf(buf, k)]
            IN  0 - vol_local <= x /\ x <= vol_local

----------------------------------------------------------------------------
(* The parameter store *)

\* C6: the volume always lies in [0.0, 1.0].
C6_VolumeInRange == 0 <= AtomicGet(volume) /\ AtomicGet(volume) <= F32One

\* C7: for every index other than 0, get_parameter returns 0.0, the label,
\* the text and the name are the empty string, set_parameter leaves the
\* stored volume as it is, and no call faults: so for every reply the host
\* got, and for every call it could make in the state reached.
C7_OutOfRangeDefaults ==
    /\ ~panicked
    /\ reply.index # 0 => (reply.num = 0 /\ reply.str = "")
    /\ \A index \in Indices \ {0} :
          /\ get_parameter(index) = 0
          /\ get_parameter_label(index) = ""
          /\ get_parameter_text(index) = ""
          /\ get_parameter_name(index) = ""
          /\ \A value \in HostVals : SetParameter(index, value).word = volume

\* C7 witness: the host got the empty text for an index out of range while
\* the volume it had set was stored.
C7_Witness ==
    /\ reply.op = "get_parameter_text"
    /\ reply.index = 2
    /\ reply.str = ""
    /\ AtomicGet(volume) \in HostVals
    /\ get_parameter_text(0) # ""

\* C8: a read of the volume returns the value of the last completed write
\* (the initial value before any), never a mixture of two values: so for
\* get_parameter(0) at any moment and for the read process makes when it
\* finds the gate open.
C8_ReadsSeeLastWrite ==
    /\ [](get_parameter(0) = last_write)
    /\ [][(rt_pc = "idle" /\ rt_pc' = "noise") => vol_local' = last_write]_vars

\* C8 witness: process has read a value only the GUI's slider writes, and it
\* is the last value written.
C8_Witness ==
    /\ rt_pc = "noise"
    /\ vol_local \in SliderVals \ (HostVals \cup {DefaultVolume})
    /\ vol_local = last_write

----------------------------------------------------------------------------
(* The editor *)

\* C9: at most one driver holds native resources: of every kind of resource
\* exactly one is alive while the session's generator holds it and none
\* otherwise, so acquisitions and releases match once no session remains
\* and right after every open.
C9_OneDriverAlive ==
    /\ \A r \in Res : Live(r) = (IF r \in Dropped(inner) THEN 1 ELSE 0)
    /\ ui_last.op = "open" => (inner = Some(NewGUI) /\ acquired = released)

\* C9 witness: an open made while a session held its resources released
\* them, and the new driver is the only one.
C9_Witness ==
    /\ ui_last.op = "open"
    /\ ui_last.freed = Res
    /\ inner = Some(NewGUI)
    /\ acquired["window"] = 1
    /\ released["window"] = 1

\* C10: an idle call resumes the generator once when a session exists and not
\* at all when none does; when the resume reports Complete the session is
\* gone when idle returns; with no session idle changes nothing.
C10_IdleResumesOnce ==
    /\ [](ui_last.op = "idle" =>
            /\ ui_last.result = "Complete" => inner = None
            /\ ui_last.resumes = 0 => inner = None)
    /\ [][(ui_last' # ui_last /\ ui_last'.op = "idle") =>
            /\ ui_last'.resumes = (IF IsSome(inner) THEN 1 ELSE 0)
            /\ ~IsSome(inner) =>
                  UNCHANGED <<inner, acquired, released, param_vars, panicked>>]_vars
    /\ [][(ui_last' = ui_last /\ ui_last.op = "idle" /\ ~IsSome(inner)) =>
            UNCHANGED <<inner, acquired, released>>]_vars

\* C10 witness: an idle call got Complete from its one resume and left no
\* session behind.
C10_Witness ==
    /\ ui_last.op = "idle"
    /\ ui_last.resumes = 1
    /\ ui_last.result = "Complete"
    /\ inner = None

\* C11: close ends the session whatever state it is in: when it has returned
\* no session is held, every resource that was acquired has been released
\* (the call released exactly what the session's generator held), and a close
\* with no session changes nothing of the editor.
C11_CloseEndsSession ==
    /\ [](ui_last.op = "close" =>
            /\ inner = None
            /\ \A r \in Res : Live(r) = 0)
    /\ [][(ui_last' # ui_last /\ ui_last'.op = "close") =>
            /\ ~IsSome(inner')
            /\ ui_last'.freed = (IF IsSome(inner) THEN Held(inner[1]) ELSE {})
            /\ \A r \in Res : released'[r] = acquired[r]
            /\ ~IsSome(inner) => UNCHANGED <<inner, acquired, released>>]_vars

\* C11 witness: close was called on a session whose generator was running and
\* released its window, surface and device.
C11_Witness ==
    /\ ui_last.op = "close"
    /\ ui_last.freed = Res
    /\ inner = None
    /\ acquired["device"] = 1
    /\ released["device"] = 1

\* C12: is_open answers whether self.inner holds a session, and a close
\* request the generator has seen does not change the answer: the session is
\* still held, until a call discards it (the idle that gets Complete, or a
\* close or open).
C12_IsOpenIffSession ==
    /\ [](ui_last.op = "is_open" => ui_last.ret = IsSome(inner))
    /\ [][(IsSome(inner) /\ inner[1].closed /\ inner' # inner) =>
            \/ ui_last'.op = "idle" /\ ui_last'.result = "Complete" /\ inner' = None
            \/ ui_last'.op \in {"close", "open"} /\ ui_last' # ui_last]_vars

\* C12 witness: is_open returned true for a session whose generator has seen
\* the close request and has not been resumed since.
C12_Witness ==
    /\ ui_last.op = "is_open"
    /\ ui_last.ret = TRUE
    /\ IsSome(inner)
    /\ inner[1].closed
    /\ inner[1].pc = "Yield421"

\* C13: a failed acquisition (no window, or no compatible adapter) is refused
\* by open: whenever the setup of a session has failed, no fault has been
\* raised to the host and no session is held, and an open that returned true
\* left a session whose setup has not failed.  The setup fails without having
\* acquired the device, so the call that ran it released less than Res.
C13_FailedOpenRefused ==
    LET failed == ui_last.resumes = 1 /\ ui_last.result = "Panic" /\ ui_last.freed # Res
    IN  /\ failed => (~panicked /\ inner = None)
        /\ (ui_last.op = "open" /\ ui_last.ret = TRUE) =>
              (IsSome(inner) /\ inner[1].pc # "Poisoned")

C15_ReleasedExactlyOnce ==
    /\ [](\A r \in Res :
            /\ released[r] <= acquired[r]
            /\ (~IsSome(inner) \/ Held(inner[1]) = {}) => released[r] = acquired[r])
    /\ [](IsSome(inner) => inner[1].pc # "Returned")
    /\ [][(ui_last' # ui_last /\ ui_last'.result = "Complete") =>
            /\ ui_last'.freed = Res
            /\ released' = Count(released, Res)
            /\ acquired' = acquired
            /\ inner' = None]_vars
    /\ [][\A r \in Res : /\ released'[r] - released[r] \in {0, 1}
                         /\ acquired'[r] - acquired[r] \in {0, 1}]_vars

\* C15 witness: two sessions have come and gone, the second ended by its
\* generator returning: each resource was acquired twice and released twice.
C15_Witness ==
    /\ ui_last.op = "idle"
    /\ ui_last.result = "Complete"
    /\ inner = None
    /\ \A r \in Res : acquired[r] = 2 /\ released[r] = 2

\* C16 as stated: the resume in which the closure sees CloseRequested is the
\* one that returns Complete: no generator that has seen the close request
\* is still held when idle has returned.
C16_CloseCompletesSameResume ==
    IsSome(inner) => ~inner[1].closed

\* C16 amended: the resume in which the closure sees CloseRequested still
\* suspends at the yield of line 421, holding its window, surface and device;
\* the next resume finds `closed` set at the loop test and returns Complete
\* without running the event loop, its resources released before it returns.
\* Complete is returned by no other resume.
C16_CloseCompletesNextResume ==
    /\ []((IsSome(inner) /\ inner[1].closed /\ inner[1].pc = "Yield421") =>
            \A r \in Res : Live(r) = 1)
    /\ [][(IsSome(inner) /\ ~inner[1].closed /\ IsSome(inner') /\ inner'[1].closed) =>
            /\ ui_last'.op = "idle"
            /\ ui_last'.result \in {"Yielded", "Panic"}
            /\ ui_last'.result = "Yielded" =>
                  (inner'[1].pc = "Yield421" /\ released' = released)]_vars
    /\ [][(IsSome(inner) /\ inner[1].closed /\ inner[1].pc = "Yield421"
             /\ ui_last' # ui_last /\ ui_last'.op = "idle") =>
            /\ ui_last'.result = "Complete"
            /\ ui_last'.frames = 0
            /\ ui_last'.freed = Res
            /\ inner' = None
            /\ UNCHANGED param_vars]_vars
    /\ [][(ui_last' # ui_last /\ ui_last'.result = "Complete") =>
            (IsSome(inner) /\ inner[1].closed /\ inner[1].pc = "Yield421")]_vars

\* C16 witness: idle has returned from the resume that saw CloseRequested:
\* the result was Yielded and the session, with its resources, is still held.
C16_Witness ==
    /\ ui_last.op = "idle"
    /\ ui_last.result = "Yielded"
    /\ IsSome(inner)
    /\ inner[1].closed
    /\ inner[1].pc = "Yield421"
    /\ \A r \in Res : Live(r) = 1

\* C17 as stated: within one resume no frame is rendered once the closure
\* has seen the close request.
C17_NoFrameAfterClose ==
    ui_last.late = 0

\* C17 amended: the RedrawRequested arm of the closure renders whether or not
\* `closed` is set, so a running generator that is handed CloseRequested and
\* then RedrawRequested in one resume renders that frame after the close
\* request; `closed` only stops the loop, so the frames rendered after a
\* close request all belong to the resume that saw it, and the resume that
\* follows renders nothing.
C17_FrameAfterCloseSameResume ==
    /\ []((IsSome(inner) /\ Held(inner[1]) = Res /\ ~inner[1].closed) =>
            LET o == RunReturn(Fresh(inner[1]),
                               <<WinEvent("CloseRequested", 0),
                                 WinEvent("RedrawRequested", 0)>>)
            IN  o.gen.closed /\ o.frames = 1 /\ o.late = 1 /\ o.result = "Yielded")
    /\ [](ui_last.late <= ui_last.frames)
    /\ [](ui_last.late > 0 =>
            /\ ui_last.op = "idle"
            /\ ui_last.result \in {"Yielded", "Panic"}
            /\ IsSome(inner) /\ inner[1].closed)
    /\ [][(IsSome(inner) /\ inner[1].closed /\ ui_last' # ui_last) =>
            ui_last'.frames = 0]_vars

\* C17 witness: idle has returned from a resume that rendered a frame after
\* its closure had seen the close request.
C17_Witness ==
    /\ ui_last.op = "idle"
    /\ ui_last.result = "Yielded"
    /\ ui_last.frames = 1
    /\ ui_last.late = 1
    /\ IsSome(inner)
    /\ inner[1].closed

\* C18: the audio side and the editor side change disjoint state: no step
\* changes both the audio state (gate counter, position and buffer of
\* process) and the editor state (session, resources, call record), so
\* process and process_events leave the session alone and open, idle and
\* close leave the gate counter alone; a step of process changes neither the
\* gate counter nor the volume.
C18_DisjointState ==
    /\ [][(gate_vars' # gate_vars \/ process_vars' # process_vars) =>
            UNCHANGED editor_vars]_vars
    /\ [][editor_vars' # editor_vars => UNCHANGED <<notes, process_vars>>]_vars
    /\ [][process_vars' # process_vars => UNCHANGED <<notes, param_vars>>]_vars

\* C18 witness: a process call is writing noise with the gate open while a
\* session is running, after a close had ended an earlier session.
C18_Witness ==
    /\ notes = 1
    /\ rt_pc = "noise"
    /\ cur = 1
    /\ IsSome(inner)
    /\ inner[1].pc = "Yield421"
    /\ ui_last.op = "idle"
    /\ released["window"] = 1

\* C19: with the gate open process reads the volume once, on entry and before
\* any sample is written, and scales every sample of the block by that value:
\* the local changes only at the entry of a call, every sample written so far
\* is a random value scaled by the local, and a write of the parameter during
\* the block changes neither the local nor a sample; the next call reads the
\* written value.
C19_OneVolumePerBlock ==
    /\ [](rt_pc = "noise" =>
            \A k \in 1..cur :
                buf[ChannelOf(buf, k)][FrameOf(buf, k)]
                    \in {NoiseSample(r, vol_local) : r \in RandomVals})
    /\ [][vol_local' # vol_local =>
            (rt_pc = "idle" /\ rt_pc' = "noise" /\ cur' = 0)]_vars
    /\ [][(rt_pc = "idle" /\ rt_pc' = "noise") =>
            (vol_local' = AtomicGet(volume) /\ UNCHANGED volume)]_vars
    /\ [][(rt_pc = "noise" /\ volume' # volume) =>
            UNCHANGED <<rt_pc, buf, cur, vol_local>>]_vars

\* C19 witness: a block of the largest shape has been filled with the volume
\* read on entry, although the parameter was written during the fill to a
\* value that would have given none of these samples.
C19_Witness ==
    /\ rt_pc = "noise"
    /\ Size(buf) = MaxChannels * MaxFrames
    /\ cur = Size(buf)
    /\ vol_local = DefaultVolume
    /\ AtomicGet(volume) # vol_local
    /\ Samples(buf) \subseteq {NoiseSample(r, vol_local) : r \in RandomVals}
    /\ Samples(buf) \cap {NoiseSample(r, AtomicGet(volume)) : r \in RandomVals} = {}

\* C20: a note-on never wraps the counter: a batch that delivers only
\* note-ons to an open gate, no note-off having ever been delivered, leaves
\* the gate open and raises no fault, 255 included.
C20_NoteOnNeverWraps ==
    [][(notes > 0 /\ n_off' = 0 /\ n_on' > n_on) => (notes' > 0 /\ ~panicked')]_vars

\* C21: open installs a generator that has not been resumed, acquires nothing
\* and returns true; a resource is acquired only by the idle that resumes an
\* unresumed generator, the first idle after the open; a close that follows
\* an open directly acquires and releases nothing.
C21_OpenInstallsUnstarted ==
    /\ [](ui_last.op = "open" =>
            /\ ui_last.ret = TRUE
            /\ ui_last.resumes = 0
            /\ inner = Some(NewGUI)
            /\ Held(inner[1]) = {})
    /\ [][ui_last'.op = "open" => acquired' = acquired]_vars
    /\ [][acquired' # acquired =>
            /\ ui_last'.op = "idle"
            /\ ui_last'.resumes = 1
            /\ IsSome(inner) /\ inner[1].pc = "Unresumed"]_vars
    /\ [][(ui_last.op = "open" /\ ui_last'.op = "close") =>
            /\ ui_last'.freed = {}
            /\ inner' = None
            /\ UNCHANGED <<acquired, released>>]_vars

\* C21 witness: a second open has returned true after an earlier session had
\* acquired and released its resources: the new session is unstarted and the
\* open acquired nothing.
C21_Witness ==
    /\ ui_last.op = "open"
    /\ ui_last.ret = TRUE
    /\ ui_last.freed = {}
    /\ inner = Some(NewGUI)
    /\ \A r \in Res : acquired[r] = 1 /\ released[r] = 1

=============================================================================
